---- MODULE Spec2Model ----
(***************************************************************************)
(* Model of client/src/language/diagnosticsSupport.ts: the reconciliation  *)
(* of the diagnostics that external linters attach to the generated        *)
(* (embedded language) documents into the two diagnostic collections       *)
(* bitbake-bash and bitbake-python, keyed by the original document.        *)
(*                                                                         *)
(* Strings are TLA+ strings (Len, SubSeq and \o act on them), positions    *)
(* and characters are 0-based as in the host API.  An optional value is a  *)
(* sequence of length at most one: None is JavaScript's undefined.         *)
(***************************************************************************)
EXTENDS Integers, Sequences, FiniteSets, TLC

None == <<>>
Some(v) == <<v>>

\* ------------------------------------------------------------ strings ---

Char(s, i) == SubSeq(s, i, i)

Lower == {"a","b","c","d","e","f","g","h","i","j","k","l","m",
          "n","o","p","q","r","s","t","u","v","w","x","y","z"}
Upper == {"A","B","C","D","E","F","G","H","I","J","K","L","M",
          "N","O","P","Q","R","S","T","U","V","W","X","Y","Z"}
Digit == {"0","1","2","3","4","5","6","7","8","9"}

\* The regular expression class \w.
IsWord(ch) == ch \in Lower \cup Upper \cup Digit \cup {"_"}

\* String.prototype.includes
Includes(s, t) ==
  \E i \in 1..(Len(s) - Len(t) + 1) : SubSeq(s, i, i + Len(t) - 1) = t

\* Whether t occurs in s at (1-based) index i.
At(s, i, t) == i + Len(t) - 1 <= Len(s) /\ SubSeq(s, i, i + Len(t) - 1) = t

\* Length of the longest run of \w characters of s that starts at index i.
RECURSIVE WordRun(_, _)
WordRun(s, i) ==
  IF i <= Len(s) /\ IsWord(Char(s, i)) THEN 1 + WordRun(s, i + 1) ELSE 0

\* Length of the longest run of \d characters of s that starts at index i.
RECURSIVE DigitRun(_, _)
DigitRun(s, i) ==
  IF i <= Len(s) /\ Char(s, i) \in Digit THEN 1 + DigitRun(s, i + 1) ELSE 0

DigitValue(ch) ==
  CASE ch = "0" -> 0 [] ch = "1" -> 1 [] ch = "2" -> 2 [] ch = "3" -> 3
    [] ch = "4" -> 4 [] ch = "5" -> 5 [] ch = "6" -> 6 [] ch = "7" -> 7
    [] ch = "8" -> 8 [] ch = "9" -> 9

\* Number(s) for a string of decimal digits.
RECURSIVE Number(_)
Number(s) ==
  IF Len(s) = 0 THEN 0
  ELSE 10 * Number(SubSeq(s, 1, Len(s) - 1)) + DigitValue(Char(s, Len(s)))

\* path.extname: from the last "." of the last path segment to the end; empty
\* when the segment has no "." or only a leading one.
RECURSIVE LastIndexOf(_, _, _)
LastIndexOf(s, ch, i) ==
  IF i = 0 THEN 0
  ELSE IF Char(s, i) = ch THEN i ELSE LastIndexOf(s, ch, i - 1)

extname(fsPath) ==
  LET slash == LastIndexOf(fsPath, "/", Len(fsPath))
      dot   == LastIndexOf(fsPath, ".", Len(fsPath))
  IN  IF dot <= slash + 1 THEN "" ELSE SubSeq(fsPath, dot, Len(fsPath))

\* ----------------------------------------------------- documents, ranges ---

Position(line, character) == [line |-> line, character |-> character]
Range(sl, sc, el, ec) == [start |-> Position(sl, sc), end |-> Position(el, ec)]

\* TextDocument.getText(range) on a document given as its sequence of lines.
RECURSIVE JoinLines(_, _, _)
JoinLines(lines, from, to) ==
  IF from > to THEN "" ELSE lines[from] \o "\n" \o JoinLines(lines, from + 1, to)

getText(lines, range) ==
  LET sl == range.start.line + 1
      el == range.end.line + 1
  IN  IF sl = el
      THEN SubSeq(lines[sl], range.start.character + 1, range.end.character)
      ELSE SubSeq(lines[sl], range.start.character + 1, Len(lines[sl])) \o "\n"
           \o JoinLines(lines, sl + 1, el - 1)
           \o SubSeq(lines[el], 1, range.end.character)

\* --------------------------------------------------------- diagnostics ---

\* A vscode.Diagnostic as a linter reports it.  code is undefined, a string,
\* or an object carrying a value; hasDiagnosticCode is the extra property
\* that Pylance puts on some diagnostics ("absent" when there is none).
NoCode == [shape |-> "none", value |-> ""]
StringCode(v) == [shape |-> "string", value |-> v]
ObjectCode(v) == [shape |-> "object", value |-> v]

Diagnostic(source, code, hasDiagnosticCode, message, range) ==
  [source |-> source, code |-> code, hasDiagnosticCode |-> hasDiagnosticCode,
   message |-> message, range |-> range]

supportedSources == <<"Flake8", "Pylance", "Pylint", "shellcheck">>

hasSourceWithCode(diagnostic, source, code) ==
  IF ~(diagnostic.source # None /\ Includes(diagnostic.source[1], source))
  THEN FALSE
  ELSE IF diagnostic.code.shape = "string" /\ diagnostic.code.value = code
  THEN TRUE
  ELSE IF diagnostic.code.shape = "object" /\ diagnostic.code.value = code
  THEN TRUE
  ELSE FALSE

checkHasSupportedSource_Any(diagnostic) == diagnostic.source # None

checkHasSupportedSource(diagnostic) ==
  \E i \in 1..Len(supportedSources) :
    diagnostic.source # None /\ Includes(diagnostic.source[1], supportedSources[i])

checkIsAlwaysIgnoredDiagnostic_NoE303(diagnostic) ==
  \/ hasSourceWithCode(diagnostic, "Flake8", "W391")
  \/ hasSourceWithCode(diagnostic, "Pylint", "C0114:missing-module-docstring")
  \/ hasSourceWithCode(diagnostic, "Pylint", "C0116:missing-function-docstring")
  \/ hasSourceWithCode(diagnostic, "Pylint", "C0305:trailing-newlines")
  \/ hasSourceWithCode(diagnostic, "Pylint", "C0415:import-outside-toplevel")
  \/ hasSourceWithCode(diagnostic, "Flake8", "E501")
  \/ hasSourceWithCode(diagnostic, "Pylint", "W0104:pointless-statement")
  \/ hasSourceWithCode(diagnostic, "Pylint", "W0106:expression-not-assigned")
  \/ hasSourceWithCode(diagnostic, "Flake8", "E203")
  \/ hasSourceWithCode(diagnostic, "Flake8", "E211")
  \/ hasSourceWithCode(diagnostic, "Flake8", "E302")

checkIsAlwaysIgnoredDiagnostic(diagnostic) ==
  \/ hasSourceWithCode(diagnostic, "Flake8", "W391")
  \/ hasSourceWithCode(diagnostic, "Pylint", "C0114:missing-module-docstring")
  \/ hasSourceWithCode(diagnostic, "Pylint", "C0116:missing-function-docstring")
  \/ hasSourceWithCode(diagnostic, "Pylint", "C0305:trailing-newlines")
  \/ hasSourceWithCode(diagnostic, "Pylint", "C0415:import-outside-toplevel")
  \/ hasSourceWithCode(diagnostic, "Flake8", "E501")
  \/ hasSourceWithCode(diagnostic, "Pylint", "W0104:pointless-statement")
  \/ hasSourceWithCode(diagnostic, "Pylint", "W0106:expression-not-assigned")
  \/ hasSourceWithCode(diagnostic, "Flake8", "E203")
  \/ hasSourceWithCode(diagnostic, "Flake8", "E211")
  \/ hasSourceWithCode(diagnostic, "Flake8", "E302")
  \/ hasSourceWithCode(diagnostic, "Flake8", "E303")

AnonymousFunctionMessage == "\"__anonymous\" is not accessed"

checkIsIgnoredDiagnosticOnAnonymousFunctionFirstLine_NoCode(diagnostic) ==
  /\ diagnostic.source # None /\ Includes(diagnostic.source[1], "Pylance")
  /\ diagnostic.code = NoCode
  /\ diagnostic.message = AnonymousFunctionMessage

checkIsIgnoredDiagnosticOnAnonymousFunctionFirstLine(diagnostic) ==
  /\ diagnostic.source # None /\ Includes(diagnostic.source[1], "Pylance")
  /\ diagnostic.hasDiagnosticCode = "false"
  /\ diagnostic.message = AnonymousFunctionMessage

\* The guard of checkIsIgnoredDiagnosticOnPythonUndefinedVariable: whether the
\* rule goes on to ask the definition service.
IsPythonUndefinedVariable(diagnostic) ==
  \/ hasSourceWithCode(diagnostic, "Flake8", "F821")
  \/ hasSourceWithCode(diagnostic, "Pylance", "reportUndefinedVariable")
  \/ hasSourceWithCode(diagnostic, "Pylint", "E0602:undefined-variable")

\* The position the rule hands to getDefinition.
PythonUndefinedVariablePosition(adjustedRange) ==
  Position(adjustedRange.start.line, adjustedRange.start.character + 1)

\* The rule's verdict, given the definitions the service answered.
checkIsIgnoredDiagnosticOnPythonUndefinedVariable(diagnostic, definition) ==
  IF ~IsPythonUndefinedVariable(diagnostic) THEN FALSE ELSE Len(definition) > 0

IsShellcheckSc2154(diagnostic) == hasSourceWithCode(diagnostic, "shellcheck", "SC2154")

\* textOnRange.match(/\w+/): the 0-based index of the first \w character and
\* the length of the run it starts; None when the text holds no \w character.
RECURSIVE FirstWordFrom(_, _)
FirstWordFrom(text, i) ==
  IF i > Len(text) THEN None
  ELSE IF IsWord(Char(text, i))
       THEN Some([index |-> i - 1, length |-> WordRun(text, i)])
       ELSE FirstWordFrom(text, i + 1)

\* The position checkIsIgnoredShellcheckSc2154 hands to getDefinition.
Sc2154Position(lines, adjustedRange) ==
  LET textOnRange == getText(lines, adjustedRange)
      match       == FirstWordFrom(textOnRange, 1)
  IN  IF match = None THEN adjustedRange.end
      ELSE IF match[1].index = 0 THEN adjustedRange.end
      ELSE Position(adjustedRange.end.line,
                    adjustedRange.start.character + match[1].index + match[1].length)

ReferencedSuffix == " is referenced but not assigned."

\* message.match(/^(?<variableName>\w+) is referenced but not assigned\.$/)
Sc2154VariableName(message) ==
  LET n == Len(message) - Len(ReferencedSuffix)
  IN  IF n >= 1 /\ WordRun(message, 1) = n /\ At(message, n + 1, ReferencedSuffix)
      THEN Some(SubSeq(message, 1, n))
      ELSE None

\* lib/src/availableVariables: the static set of common directory variables.
commonDirectoriesVariables ==
  {"prefix", "exec_prefix", "bindir", "sbindir", "libdir", "datadir", "sysconfdir"}

checkIsIgnoredShellcheckSc2154_NoFallback(diagnostic, definition) ==
  IF ~IsShellcheckSc2154(diagnostic) THEN FALSE ELSE Len(definition) > 0

\* The rule's verdict, given the definitions the service answered.
checkIsIgnoredShellcheckSc2154(diagnostic, definition) ==
  IF ~IsShellcheckSc2154(diagnostic) THEN FALSE
  ELSE IF Len(definition) > 0 THEN TRUE
  ELSE LET variableName == Sc2154VariableName(diagnostic.message)
       IN  variableName # None /\ variableName[1] \in commonDirectoriesVariables

\* ------------------------------------------- import-warning message fixer ---

embeddedLanguageDocImportLine == 7
newText == " (imported by BitBake)"

\* message.match(regex) for the three regular expressions of the fixer, each of
\* the shape  pre (?:\w+)' (?<textToRemove> mid (?<lineNumber>\d+) post ).
\* The match is the leftmost one; \w+ and \d+ are greedy.
ImportMatchAt(message, i, pre, mid, post) ==
  LET j == i + Len(pre)
      w == WordRun(message, j)
      k == j + w + 1 + Len(mid)
      n == DigitRun(message, k)
  IN  /\ At(message, i, pre)
      /\ w >= 1
      /\ At(message, j + w, "'")
      /\ At(message, j + w + 1, mid)
      /\ n >= 1
      /\ At(message, k + n, post)

RECURSIVE ImportMatchFrom(_, _, _, _, _)
ImportMatchFrom(message, i, pre, mid, post) ==
  IF i > Len(message) THEN None
  ELSE IF ImportMatchAt(message, i, pre, mid, post)
       THEN LET j == i + Len(pre)
                k == j + WordRun(message, j) + 1 + Len(mid)
                n == DigitRun(message, k)
            IN  Some([index |-> i - 1,
                      lineNumber |-> Number(SubSeq(message, k, k + n - 1)),
                      textToRemoveLength |-> Len(mid) + n + Len(post),
                      end |-> k + n + Len(post) - 1])
       ELSE ImportMatchFrom(message, i + 1, pre, mid, post)

\* The inner function fix of fixDiagnosticMessagePythonImport.
fix(message, pre, mid, post) ==
  LET match == ImportMatchFrom(message, 1, pre, mid, post)
  IN  IF match # None /\ match[1].lineNumber <= embeddedLanguageDocImportLine
      THEN SubSeq(message, 1, Len(message) - match[1].textToRemoveLength) \o newText
      ELSE message

fixDiagnosticMessagePythonImport(diagnostic) ==
  IF hasSourceWithCode(diagnostic, "Flake8", "F811")
  THEN fix(diagnostic.message, "redefinition of unused '", " from line ", "")
  ELSE IF hasSourceWithCode(diagnostic, "Pylint", "W0404:reimported")
  THEN fix(diagnostic.message, "Reimport '", " (imported line ", ")")
  ELSE IF hasSourceWithCode(diagnostic, "Pylint", "W0621:redefined-outer-name")
  THEN fix(diagnostic.message, "Redefining name '", " from outer scope (line ", ")")
  ELSE diagnostic.message

\* ------------------------------------------------------------ the host ---

\* Bounds of the model.
MaxCalls == 2
MaxDiagnostics == 2
MaxEvents == 4

Calls == 1..MaxCalls

\* The documents of the workspace: a recipe, the two documents generated from
\* it, and two files that are no embedded language documents.
OriginalUris == {"/w/r.bb"}
GeneratedUris == {"/t/r.py", "/t/r.sh"}
OtherUris == {"/w/n.txt", "/w/x.py"}
AllUris == OriginalUris \cup GeneratedUris \cup OtherUris

EmbeddedLanguageType == {"bash", "python"}

\* EmbeddedLanguageDocsManager: the generated document of each recipe and
\* language (None where the recipe has no region of that language).
embeddedLanguageDocsInfos ==
  [o \in OriginalUris |-> [bash |-> Some("/t/r.sh"), python |-> Some("/t/r.py")]]

getOriginalUri(uri) ==
  IF \E o \in OriginalUris : embeddedLanguageDocsInfos[o].bash = Some(uri)
                             \/ embeddedLanguageDocsInfos[o].python = Some(uri)
  THEN Some(CHOOSE o \in OriginalUris : embeddedLanguageDocsInfos[o].bash = Some(uri)
                                        \/ embeddedLanguageDocsInfos[o].python = Some(uri))
  ELSE None

getEmbeddedLanguageDocInfos(originalUri, embeddedLanguageType) ==
  embeddedLanguageDocsInfos[originalUri][embeddedLanguageType]

\* The text of the recipes.  Lines 0..3 are a shell function, lines 4..6 a
\* Python function, line 7 is plain BitBake.
RecipeLines ==
  << "f() {",
     "  cp ${SRC} ${bindir}",
     "  echo $FOO ${ BAR }",
     "}",
     "python g() {",
     "  d.getVar(X)",
     "}",
     "inherit x" >>

\* Ranges of the generated documents that linters report on.
GenWord == Range(20, 2, 20, 3)
GenBraces == Range(12, 5, 12, 11)
GenBare == Range(13, 8, 13, 11)
GenSpaced == Range(13, 12, 13, 20)
GenCommon == Range(12, 12, 12, 21)
GenHeader == Range(1, 0, 1, 6)
GenStale == Range(30, 0, 30, 1)
GenSigil == Range(12, 5, 12, 7)
GenBlock == Range(12, 12, 13, 11)

\* utils/embeddedLanguagesUtils getOriginalDocRange: the range of the recipe
\* that a range of the generated document comes from, None for text that the
\* generator added.
getOriginalDocRange(embeddedLanguageType, range) ==
  IF embeddedLanguageType = "bash"
  THEN CASE range = GenBraces -> Some(Range(1, 5, 1, 11))
         [] range = GenCommon -> Some(Range(1, 12, 1, 21))
         [] range = GenBare   -> Some(Range(2, 8, 2, 11))
         [] range = GenSpaced -> Some(Range(2, 12, 2, 20))
         [] range = GenSigil  -> Some(Range(1, 5, 1, 7))
         [] range = GenBlock  -> Some(Range(1, 12, 2, 11))
         [] range = GenStale  -> Some(Range(5, 2, 5, 3))
         [] OTHER             -> None
  ELSE CASE range = GenWord   -> Some(Range(5, 2, 5, 3))
         [] range = GenBraces -> Some(Range(5, 11, 5, 12))
         [] range = GenStale  -> Some(Range(1, 2, 1, 4))
         [] range = GenCommon -> Some(Range(7, 0, 7, 7))
         [] OTHER             -> None

\* RequestManager getEmbeddedLanguageTypeOnPosition: the language of the region
\* of the recipe that holds the position, "undefined" outside every region.
getEmbeddedLanguageTypeOnPosition(position) ==
  IF position.line <= 3 THEN "bash"
  ELSE IF position.line <= 6 THEN "python"
  ELSE "undefined"

\* RequestManager getDefinition: the definitions of the symbol at the position.
\* Before the scan of the project has finished the service knows none.
ScannedSymbols ==
  { Position(1, 10), Position(2, 18), Position(5, 3) }

getDefinition(isScanned, position) ==
  IF isScanned /\ position \in ScannedSymbols THEN << "definition" >> ELSE << >>

diagnosticCollectionName(embeddedLanguageType) ==
  IF embeddedLanguageType = "bash" THEN "bitbake-bash" ELSE "bitbake-python"

getEmbeddedLanguageType_PythonByDefault(uri) ==
  IF extname(uri) = ".sh" THEN "bash" ELSE "python"

getEmbeddedLanguageType_AllPython(uri) ==
  IF extname(uri) \in {".py", ".sh"} THEN "python" ELSE "undefined"

getEmbeddedLanguageType(uri) ==
  LET fileExtension == extname(uri)
  IN  IF fileExtension = ".py" THEN "python"
      ELSE IF fileExtension = ".sh" THEN "bash"
      ELSE "undefined"

\* ----------------------------------------------------------- the state ---

VARIABLES
  diagnostics,           \* the linters' diagnostics of each document
  textDocuments,         \* vscode.workspace.textDocuments: the open recipes
  scanned,               \* whether the scan of the project has finished
  diagnosticCollections, \* bitbake-bash and bitbake-python, by recipe
  calls,                 \* the updateDiagnostics calls in progress
  events                 \* how many events of the host the run has seen

vars == <<diagnostics, textDocuments, scanned, diagnosticCollections, calls, events>>

\* An event of the host (a call of an entry point, a linter's report, a
\* document opened or closed, the end of the scan): the model follows the
\* program through MaxEvents of them.
Event == events < MaxEvents /\ events' = events + 1

\* The documents whose diagnostics change in the model; the other files hold
\* diagnostics throughout.
LintedUris == GeneratedUris

\* A call of updateDiagnostics.  pc is where it stands: "returned" after one of
\* the early returns, "opening" while openTextDocument is awaited, "running"
\* while the per-diagnostic callbacks are awaited, "done" after the publish,
\* "rejected" after an awaited promise rejected.  review tells whether the
\* latest reviewDiagnostics launched it, threw whether one of its external
\* calls failed.
IdleCall ==
  [pc |-> "idle", uri |-> "", embeddedLanguageType |-> "undefined",
   originalUri |-> None, docUri |-> None, dirtyDiagnostics |-> << >>,
   tasks |-> << >>, cleanDiagnostics |-> << >>, review |-> FALSE, threw |-> FALSE]

\* A per-diagnostic callback of the Promise.all.  st is "kind" while it awaits
\* getEmbeddedLanguageTypeOnPosition, "definition" while it awaits
\* getDefinition, "dropped" or "kept" once it returned, "failed" once it threw.
Task(st, adjustedRange, kindOnPosition, rule, position, definition) ==
  [st |-> st, adjustedRange |-> adjustedRange, kindOnPosition |-> kindOnPosition,
   rule |-> rule, position |-> position, definition |-> definition]

Free(c) == calls[c].pc \in {"idle", "returned", "done", "rejected"}

\* updateDiagnostics, lines 26..53: up to the await of openTextDocument.
Begin(uri, review) ==
  LET embeddedLanguageType == getEmbeddedLanguageType(uri)
      originalUri == getOriginalUri(uri)
      found == [IdleCall EXCEPT !.uri = uri, !.review = review,
                                !.embeddedLanguageType = embeddedLanguageType]
      returned == [found EXCEPT !.pc = "returned"]
  IN  IF embeddedLanguageType = "undefined" THEN returned
      ELSE IF originalUri = None THEN returned
      ELSE IF originalUri[1] \notin textDocuments
           THEN [returned EXCEPT !.originalUri = originalUri]
      ELSE IF getEmbeddedLanguageDocInfos(originalUri[1], embeddedLanguageType) = None
           THEN [returned EXCEPT !.originalUri = originalUri]
      ELSE [found EXCEPT !.pc = "opening", !.originalUri = originalUri,
              !.docUri = getEmbeddedLanguageDocInfos(originalUri[1], embeddedLanguageType)]

\* Lines 59..75 of a callback: up to the await of the language of the position.
FirstPhase(embeddedLanguageType, diagnostic) ==
  IF ~checkHasSupportedSource(diagnostic)
  THEN Task("dropped", None, "", "", None, None)
  ELSE LET adjustedRange == getOriginalDocRange(embeddedLanguageType, diagnostic.range)
       IN  IF adjustedRange = None
           THEN Task("dropped", None, "", "", None, None)
           ELSE Task("kind", adjustedRange, "", "", None, None)

\* Lines 84..89: the diagnostic that is published.  from is not part of the
\* program: it records the callback that produced the diagnostic.
adjustedDiagnostic(embeddedLanguageType, diagnostic, task) ==
  [source |-> Some(diagnostic.source[1] \o ", "
                   \o diagnosticCollectionName(embeddedLanguageType)),
   code |-> diagnostic.code,
   hasDiagnosticCode |-> diagnostic.hasDiagnosticCode,
   message |-> fixDiagnosticMessagePythonImport(diagnostic),
   range |-> task.adjustedRange[1],
   from |-> [diagnostic |-> diagnostic, task |-> task]]

\* Lines 76..83 of a callback, and checkIsIgnoredDiagnostic up to its first
\* request to the definition service.
SecondPhase(embeddedLanguageType, diagnostic, task, kindOnPosition) ==
  LET t == [task EXCEPT !.kindOnPosition = kindOnPosition]
  IN  IF embeddedLanguageType # kindOnPosition THEN [t EXCEPT !.st = "dropped"]
      ELSE IF checkIsAlwaysIgnoredDiagnostic(diagnostic) THEN [t EXCEPT !.st = "dropped"]
      ELSE IF checkIsIgnoredDiagnosticOnAnonymousFunctionFirstLine(diagnostic)
           THEN [t EXCEPT !.st = "dropped"]
      ELSE IF IsPythonUndefinedVariable(diagnostic)
           THEN [t EXCEPT !.st = "definition", !.rule = "python",
                   !.position = Some(PythonUndefinedVariablePosition(task.adjustedRange[1]))]
      ELSE IF IsShellcheckSc2154(diagnostic)
           THEN [t EXCEPT !.st = "definition", !.rule = "shellcheck",
                   !.position = Some(Sc2154Position(RecipeLines, task.adjustedRange[1]))]
      ELSE [t EXCEPT !.st = "kept"]

\* The rest of checkIsIgnoredDiagnostic, once the definition service answered.
ThirdPhase(diagnostic, task, definition) ==
  LET t == [task EXCEPT !.definition = Some(definition)]
  IN  IF task.rule = "python"
      THEN IF checkIsIgnoredDiagnosticOnPythonUndefinedVariable(diagnostic, definition)
           THEN [t EXCEPT !.st = "dropped"]
           ELSE IF IsShellcheckSc2154(diagnostic)
           THEN [t EXCEPT !.st = "definition", !.rule = "shellcheck",
                   !.position = Some(Sc2154Position(RecipeLines, task.adjustedRange[1]))]
           ELSE [t EXCEPT !.st = "kept"]
      ELSE IF checkIsIgnoredShellcheckSc2154(diagnostic, definition)
           THEN [t EXCEPT !.st = "dropped"]
           ELSE [t EXCEPT !.st = "kept"]

\* A callback that took a step: its new state, and the push of line 90.
Stepped(call, i, task) ==
  [call EXCEPT
     !.tasks[i] = task,
     !.cleanDiagnostics =
        IF task.st = "kept"
        THEN Append(@, adjustedDiagnostic(call.embeddedLanguageType,
                                          call.dirtyDiagnostics[i], task))
        ELSE @]

\* An awaited promise rejected and nothing catches it: updateDiagnostics
\* rejects.  The callbacks still pending can only push to cleanDiagnostics,
\* which nobody reads any more, so the call's locals are dropped here.
Rejected_Swallowed(call) == [call EXCEPT !.threw = TRUE]

Rejected(call) ==
  [IdleCall EXCEPT !.pc = "rejected", !.uri = call.uri, !.review = call.review,
                   !.embeddedLanguageType = call.embeddedLanguageType,
                   !.originalUri = call.originalUri, !.docUri = call.docUri,
                   !.threw = TRUE]

\* A callback that threw: Promise.all rejects, and with it updateDiagnostics.
Thrown(call, i) == Rejected([call EXCEPT !.tasks[i].st = "dropped"])

\* Promise.all has resolved: every callback has returned.
AllSettled_NoJoin(call) == TRUE

AllSettled(call) ==
  \A i \in 1..Len(call.tasks) : call.tasks[i].st \in {"dropped", "kept"}

\* diagnosticCollection.set(originalTextDocument.uri, cleanDiagnostics)
set_Merge(collections, call) ==
  [collections EXCEPT ![call.embeddedLanguageType][call.originalUri[1]] =
     @ \o call.cleanDiagnostics]

set(collections, call) ==
  [collections EXCEPT ![call.embeddedLanguageType][call.originalUri[1]] =
     call.cleanDiagnostics]

\* ------------------------------------------------------------- actions ---

\* updateDiagnostics(uri) is called, and runs to its first await or return.
UpdateDiagnostics(c, uri) ==
  /\ Free(c)
  /\ \A b \in Calls : Free(b) => c <= b
  /\ Event
  /\ calls' = [calls EXCEPT ![c] = Begin(uri, FALSE)]
  /\ UNCHANGED <<diagnostics, textDocuments, scanned, diagnosticCollections>>

\* openTextDocument resolved: lines 54..58, and every callback up to its await.
OpenTextDocumentResolved(c) ==
  /\ calls[c].pc = "opening"
  /\ LET dirtyDiagnostics == diagnostics[calls[c].docUri[1]]
     IN  calls' = [calls EXCEPT
            ![c].pc = "running",
            ![c].dirtyDiagnostics = dirtyDiagnostics,
            ![c].tasks = [i \in 1..Len(dirtyDiagnostics) |->
                            FirstPhase(calls[c].embeddedLanguageType, dirtyDiagnostics[i])]]
  /\ UNCHANGED <<diagnostics, textDocuments, scanned, diagnosticCollections, events>>

OpenTextDocumentRejected(c) ==
  /\ calls[c].pc = "opening"
  /\ calls' = [calls EXCEPT ![c] = Rejected(calls[c])]
  /\ UNCHANGED <<diagnostics, textDocuments, scanned, diagnosticCollections, events>>

\* getEmbeddedLanguageTypeOnPosition answered callback i of call c.
KindResolved(c, i) ==
  /\ calls[c].pc = "running"
  /\ i \in 1..Len(calls[c].tasks)
  /\ calls[c].tasks[i].st = "kind"
  /\ LET task == calls[c].tasks[i]
         kindOnPosition == getEmbeddedLanguageTypeOnPosition(task.adjustedRange[1].end)
     IN  calls' = [calls EXCEPT ![c] =
           Stepped(calls[c], i,
                   SecondPhase(calls[c].embeddedLanguageType,
                               calls[c].dirtyDiagnostics[i], task, kindOnPosition))]
  /\ UNCHANGED <<diagnostics, textDocuments, scanned, diagnosticCollections, events>>

KindRejected(c, i) ==
  /\ calls[c].pc = "running"
  /\ i \in 1..Len(calls[c].tasks)
  /\ calls[c].tasks[i].st = "kind"
  /\ calls' = [calls EXCEPT ![c] = Thrown(calls[c], i)]
  /\ UNCHANGED <<diagnostics, textDocuments, scanned, diagnosticCollections, events>>

\* getDefinition answered callback i of call c.
DefinitionResolved(c, i) ==
  /\ calls[c].pc = "running"
  /\ i \in 1..Len(calls[c].tasks)
  /\ calls[c].tasks[i].st = "definition"
  /\ LET task == calls[c].tasks[i]
         definition == getDefinition(scanned, task.position[1])
     IN  calls' = [calls EXCEPT ![c] =
           Stepped(calls[c], i, ThirdPhase(calls[c].dirtyDiagnostics[i], task, definition))]
  /\ UNCHANGED <<diagnostics, textDocuments, scanned, diagnosticCollections, events>>

DefinitionRejected(c, i) ==
  /\ calls[c].pc = "running"
  /\ i \in 1..Len(calls[c].tasks)
  /\ calls[c].tasks[i].st = "definition"
  /\ calls' = [calls EXCEPT ![c] = Thrown(calls[c], i)]
  /\ UNCHANGED <<diagnostics, textDocuments, scanned, diagnosticCollections, events>>

\* Line 92: the await of Promise.all returned, the set is published.
Publish(c) ==
  /\ calls[c].pc = "running"
  /\ AllSettled(calls[c])
  /\ diagnosticCollections' = set(diagnosticCollections, calls[c])
  /\ calls' = [calls EXCEPT ![c].pc = "done"]
  /\ UNCHANGED <<diagnostics, textDocuments, scanned, events>>

\* vscode.languages.getDiagnostics(): every URI that holds diagnostics, those
\* of the two collections included.
HasDiagnostics(uri) ==
  IF uri \in OriginalUris
  THEN \E k \in EmbeddedLanguageType : diagnosticCollections[k][uri] # << >>
  ELSE uri \in OtherUris \/ diagnostics[uri] # << >>

\* reviewDiagnostics: updateDiagnostics is called on every URI that holds
\* diagnostics, each call running to its first await or return before the next
\* one starts.  The calls that return at once leave nothing behind.
ReviewDiagnostics ==
  LET allDiagnostics == {uri \in AllUris : HasDiagnostics(uri)}
      awaiting == {uri \in allDiagnostics : Begin(uri, TRUE).pc = "opening"}
      free == {c \in Calls : Free(c)}
  IN  /\ Event
      /\ \E slot \in [awaiting -> free] :
           /\ \A u1, u2 \in awaiting : slot[u1] = slot[u2] => u1 = u2
           /\ \A c \in free : (\E uri \in awaiting : slot[uri] = c)
                               \/ (\A uri \in awaiting : slot[uri] < c)
           /\ calls' = [c \in Calls |->
                          IF \E uri \in awaiting : slot[uri] = c
                          THEN Begin(CHOOSE uri \in awaiting : slot[uri] = c, TRUE)
                          ELSE [calls[c] EXCEPT !.review = FALSE]]
      /\ UNCHANGED <<diagnostics, textDocuments, scanned, diagnosticCollections>>

\* The diagnostics that the linters report in the model of the whole host.
PyRedefined ==
  Diagnostic(Some("Pylint"), ObjectCode("W0621:redefined-outer-name"), "absent",
             "Redefining name 'd' from outer scope (line 5)", GenWord)
PyUndefined ==
  Diagnostic(Some("Flake8"), StringCode("F821"), "absent", "undefined name 'd'", GenWord)
ShUnassigned ==
  Diagnostic(Some("shellcheck"), ObjectCode("SC2154"), "absent",
             "SRC is referenced but not assigned.", GenBraces)
ShQuote ==
  Diagnostic(Some("shellcheck"), ObjectCode("SC2086"), "absent",
             "Double quote to prevent globbing and word splitting.", GenBare)

Reportable(uri) ==
  CASE uri = "/t/r.py" -> {PyRedefined, PyUndefined}
    [] uri = "/t/r.sh" -> {ShUnassigned, ShQuote}

RECURSIVE SeqsUpTo(_, _)
SeqsUpTo(S, n) ==
  IF n = 0 THEN {<< >>}
  ELSE LET shorter == SeqsUpTo(S, n - 1)
       IN  shorter \cup {Append(q, x) : q \in shorter, x \in S}

\* A linter replaces the diagnostics of a document.
LinterReports(uri, reported) ==
  /\ reported # diagnostics[uri]
  /\ Event
  /\ diagnostics' = [diagnostics EXCEPT ![uri] = reported]
  /\ UNCHANGED <<textDocuments, scanned, diagnosticCollections, calls>>

OpenDocument(uri) ==
  /\ uri \notin textDocuments
  /\ Event
  /\ textDocuments' = textDocuments \cup {uri}
  /\ UNCHANGED <<diagnostics, scanned, diagnosticCollections, calls>>

CloseDocument(uri) ==
  /\ uri \in textDocuments
  /\ Event
  /\ textDocuments' = textDocuments \ {uri}
  /\ UNCHANGED <<diagnostics, scanned, diagnosticCollections, calls>>

ScanCompleted ==
  /\ ~scanned
  /\ Event
  /\ scanned' = TRUE
  /\ UNCHANGED <<diagnostics, textDocuments, diagnosticCollections, calls>>

Init ==
  /\ diagnostics = [uri \in LintedUris |-> << >>]
  /\ textDocuments = OriginalUris
  /\ scanned = FALSE
  /\ diagnosticCollections = [k \in EmbeddedLanguageType |-> [o \in OriginalUris |-> << >>]]
  /\ calls = [c \in Calls |-> IdleCall]
  /\ events = 0

Next ==
  \/ \E c \in Calls, uri \in AllUris : UpdateDiagnostics(c, uri)
  \/ ReviewDiagnostics
  \/ \E c \in Calls : OpenTextDocumentResolved(c)
  \/ \E c \in Calls : OpenTextDocumentRejected(c)
  \/ \E c \in Calls, i \in 1..MaxDiagnostics : KindResolved(c, i)
  \/ \E c \in Calls, i \in 1..MaxDiagnostics : KindRejected(c, i)
  \/ \E c \in Calls, i \in 1..MaxDiagnostics : DefinitionResolved(c, i)
  \/ \E c \in Calls, i \in 1..MaxDiagnostics : DefinitionRejected(c, i)
  \/ \E c \in Calls : Publish(c)
  \/ \E uri \in LintedUris :
       \E reported \in SeqsUpTo(Reportable(uri), MaxDiagnostics) : LinterReports(uri, reported)
  \/ \E uri \in OriginalUris : OpenDocument(uri)
  \/ \E uri \in OriginalUris : CloseDocument(uri)
  \/ ScanCompleted

Spec == Init /\ [][Next]_vars

\* ------------------------------------------- one call, one diagnostic ---

\* The specifications below follow a single call of updateDiagnostics on a
\* generated document that holds one diagnostic, drawn from a wide set.

UpdateOnce ==
  /\ calls[1].pc = "idle"
  /\ \E uri \in GeneratedUris : diagnostics[uri] # << >> /\ UpdateDiagnostics(1, uri)

NextOne ==
  \/ UpdateOnce
  \/ OpenTextDocumentResolved(1)
  \/ OpenTextDocumentRejected(1)
  \/ KindResolved(1, 1)
  \/ KindRejected(1, 1)
  \/ DefinitionResolved(1, 1)
  \/ DefinitionRejected(1, 1)
  \/ Publish(1)

InitOne(universe, uris) ==
  /\ \E uri \in uris, diagnostic \in universe :
       diagnostics = [u \in LintedUris |-> IF u = uri THEN << diagnostic >> ELSE << >>]
  /\ textDocuments = OriginalUris
  /\ scanned \in BOOLEAN
  /\ diagnosticCollections = [k \in EmbeddedLanguageType |-> [o \in OriginalUris |-> << >>]]
  /\ calls = [c \in Calls |-> IdleCall]
  /\ events = 0

Codes(values) == {StringCode(v) : v \in values} \cup {ObjectCode(v) : v \in values}

\* Sources and codes: every code the rules name, the short ids of the Pylint
\* codes, and codes that no rule names.
SourcesOfCodes ==
  { None, Some("Flake8"), Some("Pylance"), Some("Pylint"), Some("shellcheck"),
    Some("flake8"), Some("my-Pylint") }

ValuesOfCodes ==
  { "W391", "E501", "E203", "E211", "E302", "E303", "F811", "F821", "E999",
    "C0114", "C0116", "C0305", "C0415", "W0104", "W0106",
    "C0114:missing-module-docstring", "C0116:missing-function-docstring",
    "C0305:trailing-newlines", "C0415:import-outside-toplevel",
    "W0104:pointless-statement", "W0106:expression-not-assigned",
    "W0404:reimported", "W0621:redefined-outer-name", "E0602:undefined-variable",
    "reportUndefinedVariable", "SC2154", "SC2086" }

DiagnosticsOfCodes ==
  { Diagnostic(source, code, hasDiagnosticCode, message, range) :
      source \in SourcesOfCodes,
      code \in {NoCode} \cup Codes(ValuesOfCodes),
      hasDiagnosticCode \in {"absent", "false", "true"},
      message \in { AnonymousFunctionMessage, "line too long (99 > 79 characters)",
                    "bindir is referenced but not assigned." },
      range \in {GenBraces, GenHeader, GenStale} }

InitCodes == InitOne(DiagnosticsOfCodes, GeneratedUris)
SpecCodes == InitCodes /\ [][NextOne]_vars

\* Messages: the import warnings of the three linters with several line
\* numbers, with text before and after the clause, and messages that the
\* regular expressions do not match.
MessagesOfImports ==
  { "redefinition of unused 'os' from line 3",
    "redefinition of unused 'os' from line 7",
    "redefinition of unused 'os' from line 8",
    "redefinition of unused 'bb' from line 12",
    "F811 redefinition of unused 'os' from line 07",
    "redefinition of unused 'os' from line 3 (see line 20)",
    "redefinition of unused 'os'",
    "redefinition of unused '' from line 3",
    "Reimport 'os' (imported line 3)",
    "Reimport 'os' (imported line 10)",
    "Reimport 'os' (imported line 3",
    "Redefining name 'd' from outer scope (line 5)",
    "Redefining name 'd' from outer scope (line 70)",
    "Redefining name 'd' from outer scope",
    "undefined name 'd'" }

DiagnosticsOfImports ==
  { Diagnostic(source, code, "absent", message, GenWord) :
      source \in { Some("Flake8"), Some("Pylint"), Some("Pylance") },
      code \in {NoCode} \cup Codes({ "F811", "W0404:reimported",
                                     "W0621:redefined-outer-name", "F401", "F821" }),
      message \in MessagesOfImports }

InitImports == InitOne(DiagnosticsOfImports, {"/t/r.py"})
SpecImports == InitImports /\ [][NextOne]_vars

\* shellcheck: every range of the shell function, and messages that name a
\* variable of the recipe, a common directory, or neither.
DiagnosticsOfShell ==
  { Diagnostic(source, code, "absent", message, range) :
      source \in { Some("shellcheck"), Some("Flake8") },
      code \in {NoCode} \cup Codes({ "SC2154", "SC2086", "F821" }),
      message \in { "SRC is referenced but not assigned.",
                    "FOO is referenced but not assigned.",
                    "BAR is referenced but not assigned.",
                    "bindir is referenced but not assigned.",
                    "bindir is referenced but not assigned",
                    "var bindir is referenced but not assigned.",
                    "Double quote to prevent globbing and word splitting." },
      range \in { GenBraces, GenCommon, GenBare, GenSpaced, GenSigil, GenBlock,
                  GenStale, GenHeader } }

InitShell == InitOne(DiagnosticsOfShell, GeneratedUris)
SpecShell == InitShell /\ [][NextOne]_vars

\* -------------------------------------------------------------- claims ---

ToSet(seq) == {seq[i] : i \in 1..Len(seq)}

Keys == EmbeddedLanguageType \X OriginalUris

\* The diagnostics that the collection of language k holds.
PublishedIn(k) ==
  UNION {ToSet(diagnosticCollections[k][o]) : o \in OriginalUris}

Published == UNION {PublishedIn(k) : k \in EmbeddedLanguageType}

SourceIncludes(diagnostic, name) ==
  diagnostic.source # None /\ Includes(diagnostic.source[1], name)

\* Whether the (source, code) pair of the diagnostic is in the table, the code
\* being a string or an object that carries the value.
InTable(diagnostic, table) ==
  /\ diagnostic.code.shape \in {"string", "object"}
  /\ \E pair \in table :
       SourceIncludes(diagnostic, pair[1]) /\ diagnostic.code.value = pair[2]

\* Callback i of call c went past the checks of source, range and language,
\* and so entered the chain of ignore rules.
ReachedRules(c, i) ==
  /\ calls[c].tasks[i].adjustedRange # None
  /\ calls[c].tasks[i].kindOnPosition = calls[c].embeddedLanguageType

Finished(c) == calls[c].pc = "done"

\* Whether the entry that call c published holds a diagnostic made from d.
PublishedFrom(c, d) ==
  \E p \in ToSet(diagnosticCollections[calls[c].embeddedLanguageType][calls[c].originalUri[1]]) :
    p.from.diagnostic = d

\* C1: every diagnostic that a collection holds was made from a diagnostic of
\* the generated document of that language whose source contains one of
\* Flake8, Pylance, Pylint, shellcheck, whose range the mapping utility
\* mapped (the published range is that range), whose mapped position lies in
\* a region of the collection's language, and that no ignore rule matched.
C1_PublishedPassedEveryCheck ==
  \A k \in EmbeddedLanguageType : \A o \in OriginalUris :
    \A p \in ToSet(diagnosticCollections[k][o]) :
      LET d == p.from.diagnostic
          t == p.from.task
      IN  /\ embeddedLanguageDocsInfos[o][k] # None
          /\ d \in ToSet(diagnostics[embeddedLanguageDocsInfos[o][k][1]])
          /\ \E name \in {"Flake8", "Pylance", "Pylint", "shellcheck"} :
               SourceIncludes(d, name)
          /\ getOriginalDocRange(k, d.range) # None
          /\ p.range = getOriginalDocRange(k, d.range)[1]
          /\ getEmbeddedLanguageTypeOnPosition(p.range.end) = k
          /\ ~checkIsAlwaysIgnoredDiagnostic(d)
          /\ ~checkIsIgnoredDiagnosticOnAnonymousFunctionFirstLine(d)
          /\ IsPythonUndefinedVariable(d) =>
               t.definition # None /\ ~checkIsIgnoredDiagnosticOnPythonUndefinedVariable(d, t.definition[1])
          /\ IsShellcheckSc2154(d) =>
               t.definition # None /\ ~checkIsIgnoredShellcheckSc2154(d, t.definition[1])

\* A diagnostic of a decorated source was published in bitbake-bash.
C1_Witness ==
  \E p \in PublishedIn("bash") : p.from.diagnostic.source = Some("my-Pylint")

\* C2 as claimed: the Pylint codes of the table are the short ids.
ClaimedTable ==
  { <<"Flake8", "W391">>, <<"Flake8", "E501">>, <<"Flake8", "E203">>,
    <<"Flake8", "E211">>, <<"Flake8", "E302">>, <<"Flake8", "E303">>,
    <<"Pylint", "C0114">>, <<"Pylint", "C0116">>, <<"Pylint", "C0305">>,
    <<"Pylint", "C0415">>, <<"Pylint", "W0104">>, <<"Pylint", "W0106">> }

C2_Claimed ==
  \A p \in Published : ~InTable(p.from.diagnostic, ClaimedTable)

\* C2: a diagnostic whose (source, code) pair is in the always-ignored table is
\* never published, whatever its message; the Pylint codes of the table are
\* the full codes, id and name.
AlwaysIgnoredTable ==
  { <<"Flake8", "W391">>, <<"Flake8", "E501">>, <<"Flake8", "E203">>,
    <<"Flake8", "E211">>, <<"Flake8", "E302">>, <<"Flake8", "E303">>,
    <<"Pylint", "C0114:missing-module-docstring">>,
    <<"Pylint", "C0116:missing-function-docstring">>,
    <<"Pylint", "C0305:trailing-newlines">>,
    <<"Pylint", "C0415:import-outside-toplevel">>,
    <<"Pylint", "W0104:pointless-statement">>,
    <<"Pylint", "W0106:expression-not-assigned">> }

C2_AlwaysIgnoredNeverPublished ==
  /\ \A p \in Published : ~InTable(p.from.diagnostic, AlwaysIgnoredTable)
  /\ \A c \in Calls : \A i \in 1..Len(calls[c].tasks) :
       InTable(calls[c].dirtyDiagnostics[i], AlwaysIgnoredTable)
         => calls[c].tasks[i].st # "kept"

\* A call published nothing for an E303 diagnostic that entered the rules.
C2_Witness ==
  /\ Finished(1)
  /\ Len(calls[1].tasks) = 1
  /\ ReachedRules(1, 1)
  /\ InTable(calls[1].dirtyDiagnostics[1], {<<"Flake8", "E303">>})
  /\ Published = {}

Settled(c, i) == calls[c].tasks[i].st \in {"dropped", "kept"}

\* C3: a shellcheck SC2154 diagnostic that entered the rules is suppressed when
\* the definition service answers a definition at the position asked, and
\* when it answers none and the message is "<name> is referenced but not
\* assigned." for a name of the common directories; otherwise it is published
\* with its mapped range.
C3_Sc2154SuppressedOrPublished ==
  \A c \in Calls : \A i \in 1..Len(calls[c].tasks) :
    LET d == calls[c].dirtyDiagnostics[i]
        t == calls[c].tasks[i]
        found == Len(t.definition[1]) > 0
        common == \E name \in commonDirectoriesVariables :
                    d.message = name \o " is referenced but not assigned."
    IN  InTable(d, {<<"shellcheck", "SC2154">>}) /\ ReachedRules(c, i) /\ Settled(c, i) =>
          /\ t.position # None
          /\ t.definition = Some(getDefinition(scanned, t.position[1]))
          /\ (found \/ common) =>
               t.st = "dropped" /\ (Finished(c) => ~PublishedFrom(c, d))
          /\ ~(found \/ common) =>
               /\ t.st = "kept"
               /\ Finished(c) =>
                    \E p \in PublishedIn(calls[c].embeddedLanguageType) :
                      /\ p.from.diagnostic = d
                      /\ p.range = getOriginalDocRange(calls[c].embeddedLanguageType, d.range)[1]

\* The service knew no definition of bindir, the message names it, and the
\* call published nothing.
C3_Witness ==
  /\ Finished(1)
  /\ Len(calls[1].tasks) = 1
  /\ InTable(calls[1].dirtyDiagnostics[1], {<<"shellcheck", "SC2154">>})
  /\ ReachedRules(1, 1)
  /\ calls[1].tasks[1].position = Some(Position(1, 20))
  /\ calls[1].tasks[1].definition = Some(<< >>)
  /\ calls[1].dirtyDiagnostics[1].message = "bindir is referenced but not assigned."
  /\ Published = {}

\* The regular expression that the fixer applies to the diagnostic, as
\* <<pre, mid, post>>; None when the code is none of the three.
ImportPattern(diagnostic) ==
  IF InTable(diagnostic, {<<"Flake8", "F811">>})
  THEN Some(<<"redefinition of unused '", " from line ", "">>)
  ELSE IF InTable(diagnostic, {<<"Pylint", "W0404:reimported">>})
  THEN Some(<<"Reimport '", " (imported line ", ")">>)
  ELSE IF InTable(diagnostic, {<<"Pylint", "W0621:redefined-outer-name">>})
  THEN Some(<<"Redefining name '", " from outer scope (line ", ")">>)
  ELSE None

ImportClause(diagnostic) ==
  IF ImportPattern(diagnostic) = None THEN None
  ELSE LET pattern == ImportPattern(diagnostic)[1]
       IN  ImportMatchFrom(diagnostic.message, 1, pattern[1], pattern[2], pattern[3])

\* The message with the clause that names the line replaced by the suffix.
ClauseReplaced(message, clause) ==
  SubSeq(message, 1, clause.end - clause.textToRemoveLength)
    \o " (imported by BitBake)" \o SubSeq(message, clause.end + 1, Len(message))

\* C4: the message of a published F811, W0404 or W0621 diagnostic that cites
\* line n has the clause naming the line replaced by " (imported by BitBake)"
\* when n <= 7 and is the original message when n > 7; every other published
\* message is the original message.
C4_Claimed ==
  \A p \in Published :
    LET d == p.from.diagnostic
        clause == ImportClause(d)
    IN  IF clause # None /\ clause[1].lineNumber <= 7
        THEN p.message = ClauseReplaced(d.message, clause[1])
        ELSE p.message = d.message

\* C4, for the messages that end with the clause.
C4_HoldsWhenClauseEndsMessage ==
  \A p \in Published :
    LET d == p.from.diagnostic
        clause == ImportClause(d)
    IN  (clause # None => clause[1].end = Len(d.message)) =>
          IF clause # None /\ clause[1].lineNumber <= 7
          THEN p.message = ClauseReplaced(d.message, clause[1])
          ELSE p.message = d.message

\* C5 as claimed: the rule looks at whether the diagnostic has a code.
C5_Claimed ==
  \A c \in Calls : \A i \in 1..Len(calls[c].tasks) :
    LET d == calls[c].dirtyDiagnostics[i]
        t == calls[c].tasks[i]
    IN  SourceIncludes(d, "Pylance") /\ d.message = "\"__anonymous\" is not accessed"
        /\ ReachedRules(c, i) /\ Settled(c, i) =>
          /\ d.code = NoCode => t.st = "dropped"
          /\ d.code # NoCode /\ ~InTable(d, AlwaysIgnoredTable) /\ t.rule = "" => t.st = "kept"

\* C5: a diagnostic whose source contains Pylance, whose hasDiagnosticCode
\* property is false and whose message is exactly "__anonymous" is not
\* accessed (in double quotes) is never published, with or without a code; with the
\* property absent or true the rule does not match, and the diagnostic is
\* published unless another rule matches.
C5_AnonymousFunctionRule ==
  /\ \A p \in Published :
       ~ /\ SourceIncludes(p.from.diagnostic, "Pylance")
         /\ p.from.diagnostic.hasDiagnosticCode = "false"
         /\ p.from.diagnostic.message = "\"__anonymous\" is not accessed"
  /\ \A c \in Calls : \A i \in 1..Len(calls[c].tasks) :
       LET d == calls[c].dirtyDiagnostics[i]
           t == calls[c].tasks[i]
       IN  SourceIncludes(d, "Pylance") /\ d.message = "\"__anonymous\" is not accessed"
           /\ ReachedRules(c, i) /\ Settled(c, i) =>
             /\ d.hasDiagnosticCode = "false" => t.st = "dropped"
             /\ d.hasDiagnosticCode # "false" /\ ~InTable(d, AlwaysIgnoredTable) /\ t.rule = ""
                  => t.st = "kept" /\ (Finished(c) => PublishedFrom(c, d))

\* A Pylance diagnostic that has a code and the property set to false entered
\* the rules, and the call published nothing.
C5_Witness ==
  /\ Finished(1)
  /\ Len(calls[1].tasks) = 1
  /\ ReachedRules(1, 1)
  /\ calls[1].dirtyDiagnostics[1].source = Some("Pylance")
  /\ calls[1].dirtyDiagnostics[1].code = StringCode("E999")
  /\ calls[1].dirtyDiagnostics[1].hasDiagnosticCode = "false"
  /\ calls[1].dirtyDiagnostics[1].message = "\"__anonymous\" is not accessed"
  /\ Published = {}

\* ------------------------------------------------ claims on the host ---

Key(call) == <<call.embeddedLanguageType, call.originalUri>>

Entry(call) == diagnosticCollections[call.embeddedLanguageType][call.originalUri[1]]

Publishes(c) == calls[c].pc = "running" /\ calls'[c].pc = "done"

\* C6: the step in which a call publishes makes the entry of its channel for
\* the recipe exactly the call's surviving diagnostics, whatever the entry
\* held and whichever calls overlap, and changes no other entry; the
\* collections change in no other step, so the entry is always that of the
\* call that published last.
C6_PublishReplacesEntry ==
  [][ /\ \A c \in Calls : Publishes(c) =>
           diagnosticCollections' =
             [diagnosticCollections EXCEPT
                ![calls[c].embeddedLanguageType][calls[c].originalUri[1]] =
                  calls[c].cleanDiagnostics]
      /\ (\A c \in Calls : ~Publishes(c)) => UNCHANGED diagnosticCollections ]_vars

\* Two calls for the same entry have published, one of them diagnostics and
\* the other none, and the entry is empty: the empty set was published last
\* and nothing of the earlier entry is left.
C6_Witness ==
  /\ calls[1].pc = "done" /\ calls[2].pc = "done"
  /\ Key(calls[1]) = Key(calls[2])
  /\ calls[1].cleanDiagnostics # << >>
  /\ calls[2].cleanDiagnostics = << >>
  /\ Entry(calls[2]) = << >>

\* The answers that two calls received for their i-th diagnostic agree.
SameAnswers(a, b) ==
  /\ a.kindOnPosition = "" \/ b.kindOnPosition = "" \/ a.kindOnPosition = b.kindOnPosition
  /\ a.definition = None \/ b.definition = None \/ a.definition = b.definition

\* C7: two calls for the same generated document that read the same
\* diagnostics and received the same answers publish the same set, in
\* whatever order their callbacks completed.
C7_SameInputsSamePublishedSet ==
  \A c1, c2 \in Calls :
    /\ calls[c1].pc = "done" /\ calls[c2].pc = "done"
    /\ calls[c1].uri = calls[c2].uri
    /\ calls[c1].dirtyDiagnostics = calls[c2].dirtyDiagnostics
    /\ \A i \in 1..Len(calls[c1].tasks) : SameAnswers(calls[c1].tasks[i], calls[c2].tasks[i])
    => ToSet(calls[c1].cleanDiagnostics) = ToSet(calls[c2].cleanDiagnostics)

\* Two calls read the same two diagnostics, kept both, and their callbacks
\* completed in different orders.
C7_Witness ==
  /\ calls[1].pc = "done" /\ calls[2].pc = "done"
  /\ calls[1].uri = calls[2].uri
  /\ calls[1].dirtyDiagnostics = calls[2].dirtyDiagnostics
  /\ Len(calls[1].cleanDiagnostics) = 2
  /\ Len(calls[2].cleanDiagnostics) = 2
  /\ calls[1].cleanDiagnostics # calls[2].cleanDiagnostics
  /\ \A i \in 1..2 : SameAnswers(calls[1].tasks[i], calls[2].tasks[i])

Unsupported(uri) == uri # "" /\ extname(uri) \notin {".py", ".sh"}

\* C8: a call on a URI whose extension is neither .py nor .sh returns at once
\* with no language found, every time, and no step of such a call changes a
\* collection.
C8_UnsupportedExtensionIsNoOp ==
  [][\A c \in Calls :
       Unsupported(calls'[c].uri) =>
         /\ calls'[c].pc = "returned"
         /\ calls'[c].embeddedLanguageType = "undefined"
         /\ calls'[c].originalUri = None
         /\ calls'[c] # calls[c] => UNCHANGED diagnosticCollections]_vars

\* updateDiagnostics has returned on a text file while a collection holds
\* diagnostics.
C8_Witness ==
  \E c \in Calls :
    /\ calls[c].uri = "/w/n.txt"
    /\ calls[c].pc = "returned"
    /\ \E k \in EmbeddedLanguageType, o \in OriginalUris : diagnosticCollections[k][o] # << >>

Launched(c) == calls[c].review /\ calls[c].pc \in {"opening", "running", "done", "rejected"}

\* C9: no two calls that one reviewDiagnostics launched write the same entry.
C9_ReviewTasksWriteDistinctEntries ==
  \A c1, c2 \in Calls :
    Launched(c1) /\ Launched(c2) /\ c1 # c2 => Key(calls[c1]) # Key(calls[c2])

\* Both calls of one reviewDiagnostics have published, each to its own entry.
C9_Witness ==
  /\ calls[1].review /\ calls[1].pc = "done" /\ calls[1].cleanDiagnostics # << >>
  /\ calls[2].review /\ calls[2].pc = "done" /\ calls[2].cleanDiagnostics # << >>
  /\ Key(calls[1]) # Key(calls[2])

\* C10: a call whose external call failed is rejected in that very step, which
\* changes no collection, and the call takes no step afterwards: it publishes
\* nothing.
C10_FailureRejectsWithoutPublish ==
  [][\A c \in Calls :
       /\ calls'[c].threw => calls'[c].pc = "rejected"
       /\ ~calls[c].threw /\ calls'[c].threw =>
            /\ calls[c].pc \in {"opening", "running"}
            /\ UNCHANGED diagnosticCollections
       /\ calls[c].threw /\ calls'[c].threw =>
            /\ calls'[c].uri = calls[c].uri
            /\ calls'[c].pc = calls[c].pc]_vars

\* A call was rejected, and the entry it would have written still holds the
\* diagnostics of an earlier call.
C10_Witness ==
  \E c \in Calls :
    /\ calls[c].threw
    /\ calls[c].pc = "rejected"
    /\ Entry(calls[c]) # << >>

====
